---- MODULE Spec2Model ----
(***************************************************************************)
(* State-machine model of the SectLabel operator tooling:                  *)
(*   - patch_sectlabel_lite.main   (Source Patcher)                        *)
(*   - model.resolve_path / main   (Config Resolver, Model Loader/Runner)  *)
(*   - probe_diag.main, verify_env.main (Diagnostic Prober)                *)
(* Each entry point is an independent program; each has its own            *)
(* specification (SpecPatch, SpecResolve, SpecModel, SpecProbe) over the   *)
(* shared variable tuple, the other programs' variables staying idle.      *)
(***************************************************************************)
EXTENDS Integers, Sequences, FiniteSets, TLC

VARIABLES
    \* ---- Source Patcher (patch_sectlabel_lite.py)
    TARGET,      \* the target file: [exists, text]
    BACKUP,      \* the backup file: [exists, text]
    src,         \* local `src` of main()
    patched,     \* local `patched` of main()
    pc,          \* position of the patcher inside main()
    hist,        \* one record per finished run of main() (history)
    run0,        \* files as they were when the current run started (history)
    \* ---- Config Resolver / Model Loader (model.py)
    environ,     \* os.environ restricted to ELMO_OPTIONS / ELMO_WEIGHTS
    files,       \* the set of paths for which os.path.isfile is true
    rin,         \* arguments of the resolve_path call under test
    rout,        \* its outcome
    args,        \* argparse namespace of model.main(): [options, weights]
    lpc,         \* position of model.main()
    options_path,
    weights_path,
    events,      \* calls made by model.main(), in order (history)
    \* ---- Diagnostic Prober (probe_diag.py, verify_env.py)
    tool,        \* which prober entry point runs
    importable,  \* environment: does __import__(name) succeed
    smokeEnv,    \* environment: do spacy.load / the SummaryWriter import succeed
    ppc,         \* position of the prober's main()
    idx,         \* loop / statement index inside the package section
    mods,        \* results of the safe_import calls made so far
    out          \* the report printed so far (sequence of lines)

patchVars == <<TARGET, BACKUP, src, patched, pc, hist, run0>>
resVars   == <<environ, files, rin, rout>>
loadVars  == <<args, lpc, options_path, weights_path, events>>
probeVars == <<tool, importable, smokeEnv, ppc, idx, mods, out>>
vars      == <<patchVars, resVars, loadVars, probeVars>>

\* Python's None
None == "<None>"

-----------------------------------------------------------------------------
(***************************************************************************)
(* Bounds of the model                                                     *)
(***************************************************************************)
MaxLen  == 3    \* longest initial target text, in tokens
MaxRuns == 3    \* number of successive patcher invocations explored

-----------------------------------------------------------------------------
(***************************************************************************)
(* Text.  A text is a sequence of tokens; the sentinel import statement is *)
(* the two-token string <<"from", "Bow">>, so that texts may hold a part   *)
(* of it.  str.__contains__ and str.replace(old, new, 1) are modelled on   *)
(* token sequences exactly as Python defines them on character sequences.  *)
(***************************************************************************)
Tok == {"from", "Bow", "os", "nl"}

RECURSIVE TextsUpTo(_)
TextsUpTo(n) ==
    IF n = 0 THEN {<<>>}
    ELSE LET S == TextsUpTo(n - 1)
         IN  S \cup {Append(s, t) : s \in {x \in S : Len(x) = n - 1}, t \in Tok}

sentinel == <<"from", "Bow">>

\* a replacement block that binds the symbol without repeating the import text
block_withoutImportText == <<"os", "nl">>

\* the replacement text of src.replace(...): the conditional-import block
block == <<"os">> \o sentinel \o <<"nl">>

IsSubAt(s, old, i) ==
    /\ i >= 1
    /\ i + Len(old) - 1 <= Len(s)
    /\ \A k \in 1..Len(old) : s[i + k - 1] = old[k]

OccAt(s, old) == {i \in 1..Len(s) : IsSubAt(s, old, i)}

\* `old in s`
Contains(s, old) == OccAt(s, old) # {}

\* s.count(old) (the sentinel cannot overlap itself)
CountOcc(s, old) == Cardinality(OccAt(s, old))

Min(S) == CHOOSE m \in S : \A x \in S : m <= x

\* s.replace(old, new, 1)
Replace1(s, old, new) ==
    IF ~Contains(s, old) THEN s
    ELSE LET i == Min(OccAt(s, old))
         IN  SubSeq(s, 1, i - 1) \o new \o SubSeq(s, i + Len(old), Len(s))

NoFile == [exists |-> FALSE, text |-> <<>>]
File(t) == [exists |-> TRUE, text |-> t]

-----------------------------------------------------------------------------
(***************************************************************************)
(* Source Patcher: patch_sectlabel_lite.main                               *)
(***************************************************************************)
PatchIdle ==
    /\ TARGET = NoFile /\ BACKUP = NoFile
    /\ src = <<>> /\ patched = <<>>
    /\ pc = "off" /\ hist = <<>> /\ run0 = [target |-> NoFile, backup |-> NoFile]

PatchInit ==
    /\ TARGET \in {NoFile} \cup {File(t) : t \in TextsUpTo(MaxLen)}
    /\ BACKUP \in {NoFile} \cup {File(t) : t \in TextsUpTo(1)}
    /\ src = <<>> /\ patched = <<>>
    /\ pc = "idle" /\ hist = <<>>
    /\ run0 = [target |-> NoFile, backup |-> NoFile]

Finish(branch, t, b) ==
    hist' = Append(hist, [branch |-> branch,
                          before |-> run0.target, after |-> t,
                          bakBefore |-> run0.backup, bakAfter |-> b])

\* process start; main() line 15: the target must exist
PatchStart ==
    /\ pc = "idle"
    /\ Len(hist) < MaxRuns
    /\ run0' = [target |-> TARGET, backup |-> BACKUP]
    /\ pc' = "exists"
    /\ UNCHANGED <<TARGET, BACKUP, src, patched, hist>>

CheckExists ==
    /\ pc = "exists"
    /\ IF ~TARGET.exists
       THEN /\ Finish("missing", TARGET, BACKUP)     \* raise SystemExit
            /\ pc' = "idle"
       ELSE /\ pc' = "read"
            /\ UNCHANGED hist
    /\ UNCHANGED <<TARGET, BACKUP, src, patched, run0>>

\* line 18
ReadTarget ==
    /\ pc = "read"
    /\ src' = TARGET.text
    /\ pc' = "check"
    /\ UNCHANGED <<TARGET, BACKUP, patched, hist, run0>>

\* variant: the backup is written before the sentinel is looked for
CheckSentinel_backupFirst ==
    /\ pc = "check"
    /\ BACKUP' = File(src)
    /\ IF ~Contains(src, sentinel)
       THEN /\ Finish("noop", TARGET, BACKUP')
            /\ pc' = "idle"
            /\ UNCHANGED patched
       ELSE /\ patched' = Replace1(src, sentinel, block)
            /\ pc' = "backup"
            /\ UNCHANGED hist
    /\ UNCHANGED <<TARGET, src, run0>>

\* lines 20-35
CheckSentinel ==
    /\ pc = "check"
    /\ IF ~Contains(src, sentinel)
       THEN /\ Finish("noop", TARGET, BACKUP)        \* print, return
            /\ pc' = "idle"
            /\ UNCHANGED patched
       ELSE /\ patched' = Replace1(src, sentinel, block)
            /\ pc' = "backup"
            /\ UNCHANGED hist
    /\ UNCHANGED <<TARGET, BACKUP, src, run0>>

\* variant: an existing backup is kept instead of being overwritten
WriteBackup_keepExisting ==
    /\ pc = "backup"
    /\ BACKUP' = IF BACKUP.exists THEN BACKUP ELSE File(src)
    /\ pc' = "target"
    /\ UNCHANGED <<TARGET, src, patched, hist, run0>>

\* line 38
WriteBackup ==
    /\ pc = "backup"
    /\ BACKUP' = File(src)
    /\ pc' = "target"
    /\ UNCHANGED <<TARGET, src, patched, hist, run0>>

\* lines 39-40
WriteTarget ==
    /\ pc = "target"
    /\ TARGET' = File(patched)
    /\ Finish("patched", File(patched), BACKUP)
    /\ pc' = "idle"
    /\ UNCHANGED <<BACKUP, src, patched, run0>>

-----------------------------------------------------------------------------
ResIdle ==
    /\ environ = [k \in {"ELMO_OPTIONS", "ELMO_WEIGHTS"} |-> None]
    /\ files = {}
    /\ rin = [cli_value |-> None, env_key |-> "ELMO_OPTIONS", default_value |-> None]
    /\ rout = [state |-> "off"]

LoadIdle ==
    /\ args = [options |-> None, weights |-> None]
    /\ lpc = "off" /\ options_path = None /\ weights_path = None
    /\ events = <<>>

ProbeIdle ==
    /\ tool = "none"
    /\ importable = {}
    /\ smokeEnv = [spacy_load |-> FALSE, summary_writer |-> FALSE]
    /\ ppc = "off" /\ idx = 0 /\ mods = <<>> /\ out = <<>>

-----------------------------------------------------------------------------
(***************************************************************************)
(* Config Resolver: model.resolve_path                                     *)
(***************************************************************************)
EnvKeys == {"ELMO_OPTIONS", "ELMO_WEIGHTS"}
Paths   == {"/a", "/b", "/c", "/bad/path"}

\* Python truthiness of an Optional[str]
Truthy(v) == v # None /\ v # ""

\* `a or b`
PyOr(a, b) == IF Truthy(a) THEN a ELSE b

\* os.path.isfile
isfile(p) == p \in files

Returned(p) == [state |-> "returned", path |-> p]
Raised(exc, p, key) == [state |-> "raised", exc |-> exc, path |-> p, hint |-> key]

\* variant: the environment variable wins over the command line
resolve_path_envFirst(cli_value, env_key, default_value) ==
    LET path == PyOr(PyOr(environ[env_key], cli_value), default_value)
    IN  IF ~Truthy(path) \/ ~isfile(path)
        THEN Raised("FileNotFoundError", path, env_key)
        ELSE Returned(path)

\* variant: when nothing else was given, the default is handed back without
\* the isfile check
resolve_path_uncheckedDefault(cli_value, env_key, default_value) ==
    LET given == PyOr(cli_value, environ[env_key])
    IN  IF ~Truthy(given)
        THEN IF Truthy(default_value)
             THEN Returned(default_value)
             ELSE Raised("FileNotFoundError", default_value, env_key)
        ELSE IF ~isfile(given)
             THEN Raised("FileNotFoundError", given, env_key)
             ELSE Returned(given)

\* lines 11-16
resolve_path(cli_value, env_key, default_value) ==
    LET path == PyOr(PyOr(cli_value, environ[env_key]), default_value)
    IN  IF ~Truthy(path) \/ ~isfile(path)
        THEN Raised("FileNotFoundError", path, env_key)
        ELSE Returned(path)

ResInit ==
    /\ environ \in [EnvKeys -> {None, "", "/a", "/b"}]
    /\ files \in SUBSET Paths
    /\ rin \in [cli_value : {None, "", "/a", "/b"},
                env_key : EnvKeys,
                default_value : {"", "/a", "/c", "/bad/path"}]
    /\ rout = [state |-> "pending"]

\* one call resolve_path(cli_value, env_key, default_value)
ResolveCall ==
    /\ rout.state = "pending"
    /\ rout' = resolve_path(rin.cli_value, rin.env_key, rin.default_value)
    /\ UNCHANGED <<environ, files, rin>>

-----------------------------------------------------------------------------
(***************************************************************************)
(* Model Loader/Runner: model.main                                         *)
(***************************************************************************)
DEFAULT_OPTIONS == "E:\\models\\elmo\\elmo_2x4096_512_2048cnn_2xhighway_options.json"
DEFAULT_WEIGHTS == "E:\\models\\elmo\\elmo_2x4096_512_2048cnn_2xhighway_weights.hdf5"

Ev(call, ok) == [call |-> call, ok |-> ok]

LoadInit ==
    /\ environ \in [EnvKeys -> {None, "/a"}]
    /\ files \in SUBSET {"/a", "/b", DEFAULT_OPTIONS, DEFAULT_WEIGHTS}
    /\ args \in [options : {None, "/a", "/b"}, weights : {None, "/a", "/b"}]
    /\ lpc = "options"
    /\ options_path = None /\ weights_path = None
    /\ events = <<>>
    /\ rin = [cli_value |-> None, env_key |-> "ELMO_OPTIONS", default_value |-> None]
    /\ rout = [state |-> "off"]

\* variant: a failed resolution is swallowed and the default is used anyway
ResolveOptions_swallowError ==
    /\ lpc = "options"
    /\ LET r == resolve_path(args.options, "ELMO_OPTIONS", DEFAULT_OPTIONS)
       IN  /\ events' = Append(events, Ev("resolve_options", r.state = "returned"))
           /\ options_path' = IF r.state = "returned" THEN r.path ELSE DEFAULT_OPTIONS
           /\ lpc' = "weights"
    /\ UNCHANGED <<args, weights_path>>

\* line 54
ResolveOptions ==
    /\ lpc = "options"
    /\ LET r == resolve_path(args.options, "ELMO_OPTIONS", DEFAULT_OPTIONS)
       IN  /\ events' = Append(events, Ev("resolve_options", r.state = "returned"))
           /\ IF r.state = "returned"
              THEN options_path' = r.path /\ lpc' = "weights"
              ELSE options_path' = options_path /\ lpc' = "raised"
    /\ UNCHANGED <<args, weights_path>>

\* line 55
ResolveWeights ==
    /\ lpc = "weights"
    /\ LET r == resolve_path(args.weights, "ELMO_WEIGHTS", DEFAULT_WEIGHTS)
       IN  /\ events' = Append(events, Ev("resolve_weights", r.state = "returned"))
           /\ IF r.state = "returned"
              THEN weights_path' = r.path /\ lpc' = "build"
              ELSE weights_path' = weights_path /\ lpc' = "raised"
    /\ UNCHANGED <<args, options_path>>

\* line 57, build_elmo (lines 18-25): the Elmo constructor is an external
\* call; it returns a model or raises (malformed artifact)
BuildElmo ==
    /\ lpc = "build"
    /\ \E ok \in BOOLEAN :
          /\ events' = Append(events, Ev("build_elmo", ok))
          /\ lpc' = IF ok THEN "run" ELSE "raised"
    /\ UNCHANGED <<args, options_path, weights_path>>

\* line 58, run_once (lines 27-39): one forward pass under torch.no_grad();
\* the forward pass is an external call that returns or raises
RunOnce ==
    /\ lpc = "run"
    /\ \E ok \in BOOLEAN :
          /\ events' = Append(events, Ev("forward", ok))
          /\ lpc' = IF ok THEN "done" ELSE "raised"
    /\ UNCHANGED <<args, options_path, weights_path>>

-----------------------------------------------------------------------------
(***************************************************************************)
(* Diagnostic Prober: probe_diag.main and verify_env.main                  *)
(* A report line is a section banner or a key/value line; values that the  *)
(* properties do not read (paths, version strings) are abstracted to "-",  *)
(* a package line's value to "ok" (a version or N/A is printed) or         *)
(* "not-installed" (NOT INSTALLED / FAIL with the error is printed).       *)
(***************************************************************************)
\* probe_diag.py: names handed to safe_import and the keys they print under
PD_IMPORTS == <<"google.protobuf", "spacy", "torch", "gensim",
                "tensorboardX", "lmdb", "sciwing">>
PD_LABELS  == <<"protobuf", "spacy", "torch", "gensim",
                "tensorboardX", "lmdb", "sciwing">>
\* verify_env.py: the loop's list
VE_NAMES   == <<"lmdb", "spacy", "gensim", "torch", "tensorboardX", "sciwing">>

Range(f) == {f[i] : i \in DOMAIN f}
AllNames == Range(PD_IMPORTS) \cup Range(VE_NAMES)

Section(name) == [kind |-> "section", key |-> name, val |-> ""]
KV(key, val)  == [kind |-> "kv", key |-> key, val |-> val]

ProbeInit ==
    /\ tool \in {"probe_diag", "verify_env"}
    /\ importable \in SUBSET AllNames
    /\ smokeEnv \in [spacy_load : BOOLEAN, summary_writer : BOOLEAN]
    /\ ppc = IF tool = "probe_diag" THEN "runtime" ELSE "python"
    /\ idx = 0 /\ mods = <<>> /\ out = <<>>

\* variant: the import is not wrapped in try/except
safe_import_uncaught(name) ==
    IF name \in importable
    THEN [mod |-> name, err |-> None, raised |-> FALSE]
    ELSE [mod |-> None, err |-> None, raised |-> TRUE]

\* probe_diag.py lines 7-12
safe_import(name) ==
    IF name \in importable
    THEN [mod |-> name, err |-> None, raised |-> FALSE]
    ELSE [mod |-> None, err |-> "error", raised |-> FALSE]

\* probe_diag.py lines 17-25
spaCy_smoke(spacy) ==
    IF spacy = None THEN KV("SPACY SMOKE", "FAILED")
    ELSE IF smokeEnv.spacy_load THEN KV("SPACY SMOKE", "OK")
    ELSE KV("SPACY SMOKE", "FAILED")

\* probe_diag.py lines 27-34
tbx_smoke(tbx) ==
    IF tbx = None THEN KV("TENSORBOARDX SMOKE", "FAILED")
    ELSE IF smokeEnv.summary_writer THEN KV("TENSORBOARDX SMOKE", "OK")
    ELSE KV("TENSORBOARDX SMOKE", "FAILED")

\* probe_diag.py lines 37-42
PD_Runtime ==
    /\ tool = "probe_diag" /\ ppc = "runtime"
    /\ out' = out \o <<Section("RUNTIME"), KV("python_executable", "-"),
                       KV("python_version", "-"), KV("platform", "-")>>
    /\ ppc' = "env"
    /\ UNCHANGED <<tool, importable, smokeEnv, idx, mods>>

\* probe_diag.py lines 44-48
PD_EnvVars ==
    /\ tool = "probe_diag" /\ ppc = "env"
    /\ out' = out \o <<Section("ENV VARS"), KV("SCIWING_LITE", "-"),
                       KV("PROTOCOL_BUFFERS_PYTHON_IMPLEMENTATION", "-")>>
    /\ ppc' = "packages"
    /\ UNCHANGED <<tool, importable, smokeEnv, idx, mods>>

\* probe_diag.py lines 50-52
PD_PackagesHeader ==
    /\ tool = "probe_diag" /\ ppc = "packages"
    /\ out' = Append(out, Section("PACKAGES"))
    /\ ppc' = "import" /\ idx' = 1
    /\ UNCHANGED <<tool, importable, smokeEnv, mods>>

\* probe_diag.py lines 54-60, one statement at a time
PD_Import ==
    /\ tool = "probe_diag" /\ ppc = "import"
    /\ LET r == safe_import(PD_IMPORTS[idx])
       IN  IF r.raised
           THEN ppc' = "aborted" /\ UNCHANGED <<idx, mods>>
           ELSE /\ mods' = Append(mods, r)
                /\ IF idx = Len(PD_IMPORTS)
                   THEN ppc' = "status" /\ idx' = 1
                   ELSE ppc' = "import" /\ idx' = idx + 1
    /\ UNCHANGED <<tool, importable, smokeEnv, out>>

\* variant: the gensim line tests the torch module (copied line)
PD_Status_copiedLine ==
    /\ tool = "probe_diag" /\ ppc = "status"
    /\ LET m == IF idx = 4 THEN mods[3] ELSE mods[idx]
       IN  out' = Append(out, KV(PD_LABELS[idx],
                     IF m.mod # None THEN "ok" ELSE "not-installed"))
    /\ IF idx = Len(PD_LABELS)
       THEN ppc' = "smoke" /\ idx' = 0
       ELSE ppc' = "status" /\ idx' = idx + 1
    /\ UNCHANGED <<tool, importable, smokeEnv, mods>>

\* probe_diag.py lines 62-68, one statement at a time
PD_Status ==
    /\ tool = "probe_diag" /\ ppc = "status"
    /\ out' = Append(out, KV(PD_LABELS[idx],
                  IF mods[idx].mod # None THEN "ok" ELSE "not-installed"))
    /\ IF idx = Len(PD_LABELS)
       THEN ppc' = "smoke" /\ idx' = 0
       ELSE ppc' = "status" /\ idx' = idx + 1
    /\ UNCHANGED <<tool, importable, smokeEnv, mods>>

\* probe_diag.py lines 70-72
PD_SmokeHeader ==
    /\ tool = "probe_diag" /\ ppc = "smoke"
    /\ out' = Append(out, Section("SMOKE TESTS"))
    /\ ppc' = "spacy_smoke"
    /\ UNCHANGED <<tool, importable, smokeEnv, idx, mods>>

\* probe_diag.py line 73: spaCy_smoke(spacy)
PD_SpacySmoke ==
    /\ tool = "probe_diag" /\ ppc = "spacy_smoke"
    /\ out' = Append(out, spaCy_smoke(mods[2].mod))
    /\ ppc' = "tbx_smoke"
    /\ UNCHANGED <<tool, importable, smokeEnv, idx, mods>>

\* probe_diag.py line 74: tbx_smoke(tbx)
PD_TbxSmoke ==
    /\ tool = "probe_diag" /\ ppc = "tbx_smoke"
    /\ out' = Append(out, tbx_smoke(mods[5].mod))
    /\ ppc' = "finish"
    /\ UNCHANGED <<tool, importable, smokeEnv, idx, mods>>

\* probe_diag.py lines 76-78
PD_Done ==
    /\ tool = "probe_diag" /\ ppc = "finish"
    /\ out' = Append(out, Section("DONE"))
    /\ ppc' = "done"
    /\ UNCHANGED <<tool, importable, smokeEnv, idx, mods>>

\* verify_env.py lines 4-9
ve_safe_import(mod) ==
    IF mod \in importable
    THEN [mod |-> mod, status |-> "ok"]
    ELSE [mod |-> None, status |-> "not-installed"]

\* verify_env.py lines 12-17
VE_Python ==
    /\ tool = "verify_env" /\ ppc = "python"
    /\ out' = out \o <<Section("PYTHON"), KV("exe", "-"), KV("version", "-")>>
    /\ ppc' = "env"
    /\ UNCHANGED <<tool, importable, smokeEnv, idx, mods>>

\* verify_env.py lines 19-25
VE_EnvVars ==
    /\ tool = "verify_env" /\ ppc = "env"
    /\ out' = out \o <<Section("ENV VARS (runtime)"), KV("SCIWING_LITE", "-"),
                       KV("PROTOCOL_BUFFERS_PYTHON_IMPLEMENTATION", "-"),
                       KV("HTTP_PROXY", "-"), KV("HTTPS_PROXY", "-")>>
    /\ ppc' = "imports"
    /\ UNCHANGED <<tool, importable, smokeEnv, idx, mods>>

\* verify_env.py lines 27-29
VE_ImportsHeader ==
    /\ tool = "verify_env" /\ ppc = "imports"
    /\ out' = Append(out, Section("IMPORTS"))
    /\ ppc' = "loop" /\ idx' = 1
    /\ UNCHANGED <<tool, importable, smokeEnv, mods>>

\* verify_env.py lines 30-42: one iteration of the loop
VE_Import ==
    /\ tool = "verify_env" /\ ppc = "loop"
    /\ LET name == VE_NAMES[idx]
           r == ve_safe_import(name)
           smoke == IF name = "spacy" /\ r.mod # None
                    THEN IF smokeEnv.spacy_load
                         THEN <<KV("spacy pipeline", "-"), KV("spacy smoke", "OK")>>
                         ELSE <<KV("spacy model load", "FAILED")>>
                    ELSE <<>>
           path == IF name = "lmdb" /\ r.mod # None
                   THEN <<KV("lmdb path", "-")>>
                   ELSE <<>>
       IN  out' = out \o <<KV(name, r.status)>> \o smoke \o path
    /\ IF idx = Len(VE_NAMES)
       THEN ppc' = "finish" /\ idx' = 0
       ELSE ppc' = "loop" /\ idx' = idx + 1
    /\ UNCHANGED <<tool, importable, smokeEnv, mods>>

\* verify_env.py lines 43-47
VE_Done ==
    /\ tool = "verify_env" /\ ppc = "finish"
    /\ out' = Append(out, Section("DONE"))
    /\ ppc' = "done"
    /\ UNCHANGED <<tool, importable, smokeEnv, idx, mods>>

-----------------------------------------------------------------------------
InitPatch == PatchInit /\ ResIdle /\ LoadIdle /\ ProbeIdle

NextPatch ==
    \/ PatchStart /\ UNCHANGED <<resVars, loadVars, probeVars>>
    \/ CheckExists /\ UNCHANGED <<resVars, loadVars, probeVars>>
    \/ ReadTarget /\ UNCHANGED <<resVars, loadVars, probeVars>>
    \/ CheckSentinel /\ UNCHANGED <<resVars, loadVars, probeVars>>
    \/ WriteBackup /\ UNCHANGED <<resVars, loadVars, probeVars>>
    \/ WriteTarget /\ UNCHANGED <<resVars, loadVars, probeVars>>

SpecPatch == InitPatch /\ [][NextPatch]_vars

InitResolve == ResInit /\ PatchIdle /\ LoadIdle /\ ProbeIdle

NextResolve == ResolveCall /\ UNCHANGED <<patchVars, loadVars, probeVars>>

SpecResolve == InitResolve /\ [][NextResolve]_vars

InitModel == LoadInit /\ PatchIdle /\ ProbeIdle

NextModel ==
    \/ ResolveOptions /\ UNCHANGED <<patchVars, resVars, probeVars>>
    \/ ResolveWeights /\ UNCHANGED <<patchVars, resVars, probeVars>>
    \/ BuildElmo /\ UNCHANGED <<patchVars, resVars, probeVars>>
    \/ RunOnce /\ UNCHANGED <<patchVars, resVars, probeVars>>

SpecModel == InitModel /\ [][NextModel]_vars

InitProbe == ProbeInit /\ PatchIdle /\ ResIdle /\ LoadIdle

NextProbe ==
    \/ PD_Runtime /\ UNCHANGED <<patchVars, resVars, loadVars>>
    \/ PD_EnvVars /\ UNCHANGED <<patchVars, resVars, loadVars>>
    \/ PD_PackagesHeader /\ UNCHANGED <<patchVars, resVars, loadVars>>
    \/ PD_Import /\ UNCHANGED <<patchVars, resVars, loadVars>>
    \/ PD_Status /\ UNCHANGED <<patchVars, resVars, loadVars>>
    \/ PD_SmokeHeader /\ UNCHANGED <<patchVars, resVars, loadVars>>
    \/ PD_SpacySmoke /\ UNCHANGED <<patchVars, resVars, loadVars>>
    \/ PD_TbxSmoke /\ UNCHANGED <<patchVars, resVars, loadVars>>
    \/ PD_Done /\ UNCHANGED <<patchVars, resVars, loadVars>>
    \/ VE_Python /\ UNCHANGED <<patchVars, resVars, loadVars>>
    \/ VE_EnvVars /\ UNCHANGED <<patchVars, resVars, loadVars>>
    \/ VE_ImportsHeader /\ UNCHANGED <<patchVars, resVars, loadVars>>
    \/ VE_Import /\ UNCHANGED <<patchVars, resVars, loadVars>>
    \/ VE_Done /\ UNCHANGED <<patchVars, resVars, loadVars>>

SpecProbe == InitProbe /\ [][NextProbe]_vars

\* each prober is a sequential program that runs to completion
FairSpecProbe == SpecProbe /\ WF_vars(NextProbe)

-----------------------------------------------------------------------------
(***************************************************************************)
(* Properties of the Source Patcher (checked under SpecPatch)              *)
(***************************************************************************)
HasSentinel(f) == f.exists /\ Contains(f.text, sentinel)
Last == hist[Len(hist)]

\* C1: patch idempotence -- for every existing initial target, the second
\* run of the patcher takes the "nothing to patch" branch, leaves the target
\* as the first run left it, and does not touch the backup of the first run.
C1_PatchIdempotent ==
    (Len(hist) >= 2 /\ hist[1].before.exists) =>
        /\ hist[2].branch = "noop"
        /\ hist[2].after = hist[1].after
        /\ hist[2].bakAfter = hist[1].bakAfter

\* C2: patch correctness -- if the target holds the sentinel exactly once,
\* then after one run of the patcher the target no longer contains it.
C2_SentinelGoneAfterPatch ==
    (/\ Len(hist) >= 1
     /\ hist[1].before.exists
     /\ CountOcc(hist[1].before.text, sentinel) = 1) =>
        ~Contains(hist[1].after.text, sentinel)

\* C3: in every run that finds the sentinel the backup is written before the
\* target, with the text read at the start of that run, overwriting any
\* older backup; so whenever the target holds the patched text of a run the
\* backup holds the text the target had immediately before that run.
C3_State ==
    /\ pc = "target" =>
          /\ BACKUP = File(src)
          /\ TARGET = run0.target
          /\ src = run0.target.text
    /\ \A i \in 1..Len(hist) :
          hist[i].branch = "patched" =>
             /\ hist[i].bakAfter = hist[i].before
             /\ hist[i].after = File(Replace1(hist[i].before.text, sentinel, block))
    /\ (pc = "idle" /\ Len(hist) > 0 /\ Last.branch = "patched") =>
          /\ TARGET = Last.after
          /\ BACKUP = Last.before

C3_BackupBeforeTarget ==
    /\ []C3_State
    /\ [][TARGET' # TARGET =>
            /\ pc = "target"
            /\ BACKUP = File(src)
            /\ BACKUP' = BACKUP]_vars

\* a patching run has finished over a backup that already existed and held
\* something else than the text the run read
C3_Witness ==
    /\ pc = "idle" /\ Len(hist) > 0
    /\ Last.branch = "patched"
    /\ Last.bakBefore.exists
    /\ Last.bakBefore # Last.before
    /\ BACKUP = Last.before

\* C9: when the target exists and does not contain the sentinel, the run
\* ends normally on the no-op branch and neither the target nor the backup
\* (nor the backup's existence) changes at any point of the run.
C9_NoOpFrame ==
    /\ \A i \in 1..Len(hist) :
          (hist[i].before.exists /\ ~HasSentinel(hist[i].before)) =>
             /\ hist[i].branch = "noop"
             /\ hist[i].after = hist[i].before
             /\ hist[i].bakAfter = hist[i].bakBefore
    /\ (pc \in {"exists", "read", "check", "backup", "target"}
          /\ run0.target.exists /\ ~HasSentinel(run0.target)) =>
             /\ pc \in {"exists", "read", "check"}
             /\ TARGET = run0.target
             /\ BACKUP = run0.backup

\* a no-op run on a non-empty target has finished and there is still no backup
C9_Witness ==
    /\ Len(hist) >= 1
    /\ Last.branch = "noop"
    /\ Len(Last.before.text) > 0
    /\ ~BACKUP.exists

-----------------------------------------------------------------------------
(***************************************************************************)
(* Properties of the Config Resolver (checked under SpecResolve)           *)
(***************************************************************************)
Called == rout.state \in {"returned", "raised"}
EnvValue == environ[rin.env_key]

\* the first non-empty value in the order explicit > environment > default
Candidate ==
    IF Truthy(rin.cli_value) THEN rin.cli_value
    ELSE IF Truthy(EnvValue) THEN EnvValue
    ELSE IF Truthy(rin.default_value) THEN rin.default_value
    ELSE None

\* C4: resolve_path takes the first non-empty value in the order explicit >
\* environment variable > default, returns it iff it is an existing file and
\* fails otherwise; an explicit existing file always wins, an env value
\* naming an existing file wins when no explicit value is given; whatever
\* is returned is an existing file.
C4_Precedence ==
    Called =>
        /\ rout.state = "returned" <=> (Candidate # None /\ Candidate \in files)
        /\ rout.state = "returned" => rout.path = Candidate /\ rout.path \in files
        /\ (Truthy(rin.cli_value) /\ rin.cli_value \in files) =>
              rout = Returned(rin.cli_value)
        /\ (~Truthy(rin.cli_value) /\ Truthy(EnvValue) /\ EnvValue \in files) =>
              rout = Returned(EnvValue)

\* no explicit value: the env value was returned although a different
\* default names an existing file too
C4_Witness ==
    /\ ~Truthy(rin.cli_value)
    /\ rout = Returned(EnvValue)
    /\ rin.default_value \in files
    /\ rin.default_value # EnvValue

Invalid(v) == ~Truthy(v) \/ v \notin files

\* C5 (as stated): whenever the explicit and the environment value are both
\* absent or invalid (empty, unset, or no existing file), resolve_path
\* returns the default if it is an existing file and otherwise fails with
\* the not-found error carrying the attempted path.
C5_FallbackWhenInvalid ==
    (Called /\ Invalid(rin.cli_value) /\ Invalid(EnvValue)) =>
        IF rin.default_value \in files
        THEN rout = Returned(rin.default_value)
        ELSE rout.state = "raised" /\ rout.exc = "FileNotFoundError"

\* C5 (amended): whenever the explicit and the environment value are both
\* absent or empty, resolve_path returns the default if it is an existing
\* file and otherwise fails with the not-found error carrying the default
\* as attempted path and naming the environment variable.
C5_FallbackWhenAbsent ==
    (Called /\ ~Truthy(rin.cli_value) /\ ~Truthy(EnvValue)) =>
        IF rin.default_value \in files
        THEN rout = Returned(rin.default_value)
        ELSE rout = Raised("FileNotFoundError", rin.default_value, rin.env_key)

\* resolve(None, "ELMO_OPTIONS", "/bad/path") with ELMO_OPTIONS unset
C5_Witness ==
    /\ rin = [cli_value |-> None, env_key |-> "ELMO_OPTIONS",
              default_value |-> "/bad/path"]
    /\ environ["ELMO_OPTIONS"] = None
    /\ rout = Raised("FileNotFoundError", "/bad/path", "ELMO_OPTIONS")

-----------------------------------------------------------------------------
(***************************************************************************)
(* Properties of the Model Loader (checked under SpecModel)                *)
(***************************************************************************)
CallOrder == <<"resolve_options", "resolve_weights", "build_elmo", "forward">>
Terminated == lpc \in {"done", "raised"}
NumCalls(c) == Cardinality({i \in 1..Len(events) : events[i].call = c})
Ok(c) == \E i \in 1..Len(events) : events[i].call = c /\ events[i].ok
Failed(c) == \E i \in 1..Len(events) : events[i].call = c /\ ~events[i].ok

\* the calls are made in the order of CallOrder, each at most once, and a
\* failed call is the last one made
AbortOnFirstFailure ==
    /\ Len(events) <= Len(CallOrder)
    /\ \A i \in 1..Len(events) : events[i].call = CallOrder[i]
    /\ \A i \in 1..Len(events) : ~events[i].ok => (i = Len(events) /\ lpc = "raised")
    /\ (Failed("resolve_options") \/ Failed("resolve_weights")) =>
          NumCalls("build_elmo") = 0 /\ NumCalls("forward") = 0

\* C8 (as stated): the options path is resolved before the weights path, a
\* failed resolution ends the run without construction and without forward
\* pass, and when both resolutions succeed the model is constructed exactly
\* once and exactly one forward pass is run.
C8_AbortOrRunOnce ==
    /\ AbortOnFirstFailure
    /\ (Terminated /\ Ok("resolve_options") /\ Ok("resolve_weights")) =>
          /\ NumCalls("build_elmo") = 1
          /\ NumCalls("forward") = 1

\* C8 (amended): as above, but when both resolutions succeed the
\* constructor is called exactly once, and exactly one forward pass is run
\* if it returns a model, none if it raises.
C8_AbortOrBuildOnce ==
    /\ AbortOnFirstFailure
    /\ (Terminated /\ Ok("resolve_options") /\ Ok("resolve_weights")) =>
          /\ NumCalls("build_elmo") = 1
          /\ NumCalls("forward") = (IF Ok("build_elmo") THEN 1 ELSE 0)
    /\ lpc = "done" => Ok("forward")

\* a run in which the options resolved and the weights did not
C8_Witness ==
    /\ lpc = "raised"
    /\ Ok("resolve_options")
    /\ Failed("resolve_weights")
    /\ Len(events) = 2

-----------------------------------------------------------------------------
(***************************************************************************)
(* Properties of the Diagnostic Prober (SpecProbe, FairSpecProbe)          *)
(***************************************************************************)
NumLines(kind, key) ==
    Cardinality({i \in 1..Len(out) : out[i].kind = kind /\ out[i].key = key})

\* C6: whatever imports raise and however the smoke tests end, the prober
\* never aborts, prints a status line for every package of its list, runs
\* both smoke tests (probe_diag) and reaches the final Done banner.
C6_State ==
    /\ ppc # "aborted"
    /\ ppc = "done" =>
          /\ out[Len(out)] = Section("DONE")
          /\ tool = "probe_diag" =>
                /\ \A i \in 1..Len(PD_LABELS) : NumLines("kv", PD_LABELS[i]) = 1
                /\ NumLines("kv", "SPACY SMOKE") = 1
                /\ NumLines("kv", "TENSORBOARDX SMOKE") = 1
          /\ tool = "verify_env" =>
                \A i \in 1..Len(VE_NAMES) : NumLines("kv", VE_NAMES[i]) = 1

C6_ProberIsolation == []C6_State /\ <>(ppc = "done")

\* probe_diag finished although spacy and sciwing failed to import (packages
\* probed before and after them succeeded) and both smoke tests failed
C6_Witness ==
    /\ ppc = "done" /\ tool = "probe_diag"
    /\ importable = {"google.protobuf", "torch", "tensorboardX", "lmdb"}
    /\ ~smokeEnv.summary_writer
    /\ \E i, j \in 1..Len(out) :
          /\ out[i] = KV("SPACY SMOKE", "FAILED")
          /\ out[j] = KV("TENSORBOARDX SMOKE", "FAILED")

IsSection(l) == l.kind = "section"
SectionNames(o) == LET h == SelectSeq(o, IsSection) IN [i \in 1..Len(h) |-> h[i].key]
PD_SECTIONS == <<"RUNTIME", "ENV VARS", "PACKAGES", "SMOKE TESTS", "DONE">>
IsPrefix(a, b) == Len(a) <= Len(b) /\ \A i \in 1..Len(a) : a[i] = b[i]
Pos(line) == CHOOSE i \in 1..Len(out) : out[i] = line

\* C7: probe_diag prints its sections in the order Runtime, Environment,
\* Packages, Smoke tests, Done, and the Packages section is exactly one
\* line per package of the list, in the declared order, "ok" exactly when
\* that package's import succeeded and "not-installed" otherwise.
C7_ReportOrder ==
    tool = "probe_diag" =>
        /\ IsPrefix(SectionNames(out), PD_SECTIONS)
        /\ ppc = "done" =>
              /\ SectionNames(out) = PD_SECTIONS
              /\ SubSeq(out, Pos(Section("PACKAGES")) + 1,
                             Pos(Section("SMOKE TESTS")) - 1)
                    = [i \in 1..Len(PD_LABELS) |->
                         KV(PD_LABELS[i],
                            IF PD_IMPORTS[i] \in importable
                            THEN "ok" ELSE "not-installed")]
              /\ Cardinality({i \in 1..Len(out) : out[i].val = "ok"})
                    = Cardinality(importable \cap Range(PD_IMPORTS))

\* probe_diag finished where only torch can be imported: one ok line, the
\* other six not-installed
C7_Witness ==
    /\ ppc = "done" /\ tool = "probe_diag"
    /\ importable = {"torch"}
    /\ Cardinality({i \in 1..Len(out) : out[i].val = "ok"}) = 1
    /\ Cardinality({i \in 1..Len(out) : out[i].val = "not-installed"})
          = Len(PD_LABELS) - 1

====
